---- MODULE Spec2Model ----
(***************************************************************************)
(* The conversation turn controller of chat-with-review.py: main() is run  *)
(* from top to bottom on every Streamlit refresh cycle.  What survives a   *)
(* cycle is st.session_state.messages (the transcript) and the uploader    *)
(* widget's selection; main()'s local names are fresh in every run.        *)
(*                                                                         *)
(* The collaborators under libs/ (process_uploaded_files, format_prompt)   *)
(* are not part of the source at hand and follow the contracts of spec.md  *)
(* section 6.  The window memory handed to ConversationChain (lines 95-103 *)
(* and 157-159) is state of the orchestration library and is not modelled. *)
(***************************************************************************)
EXTENDS Naturals, Sequences, FiniteSets, TLC

\* Number of refresh cycles explored after the initial page load.
MaxCycles == 4

(***************************************************************************)
(* Environment: the files the user can select and the texts they can type. *)
(***************************************************************************)
FileIds == {"fileA", "fileB"}

\* What extraction yields for each file: fileA is a text file, fileB an image.
FileContent(id) ==
    IF id = "fileA"
    THEN [type |-> "text", text |-> "Great battery life."]
    ELSE [type |-> "image", source |-> id]

Prompts == {"hi", "recommend?", "What do people say?"}

\* st.chat_input() returns None when nothing was submitted; `if prompt:` is false.
NoPrompt == ""

Range(s) == {s[i] : i \in 1..Len(s)}

Last(s) == s[Len(s)]

IsPrefix(s, t) == Len(s) <= Len(t) /\ \A i \in 1..Len(s) : s[i] = t[i]

\* The uploader holds an ordered selection of distinct files.
Selections ==
    {<<>>} \cup {<<f>> : f \in FileIds}
           \cup {<<f, g>> : <<f, g>> \in {p \in FileIds \X FileIds : p[1] # p[2]}}

\* The assistant greeting (its text is Korean in the source; glossed here).
INIT_MESSAGE ==
    [role |-> "assistant",
     content |-> "Hello! I am a Bedrock AI review analysis chatbot. How can I help?"]

\* The text the Model Client returns for its n-th successful call.
Reply(n) == "reply" \o ToString(n)

(***************************************************************************)
(* Collaborators, by their contracts.                                      *)
(***************************************************************************)
\* process_uploaded_files(uploaded_files, message_images_list, uploaded_file_ids):
\* extracts every file whose id is not yet in message_images_list, in input
\* order, and appends those ids to uploaded_file_ids.
ProcessUploadedFiles(files, done) ==
    LET ids == SelectSeq(files, LAMBDA f : f \notin Range(done))
    IN  [uploaded_file_ids |-> ids,
         content_files |-> [i \in 1..Len(ids) |-> FileContent(ids[i])]]

\* ChatModel.format_prompt(text): one provider-neutral text block.
FormatPrompt(text) == <<[type |-> "text", text |-> text]>>

(***************************************************************************)
(* main(), lines 88-167.                                                   *)
(***************************************************************************)
VARIABLES
    messages,           \* st.session_state.messages
    uploaded_files,     \* the uploader widget's current selection
    prompt,             \* locals of the last run of main() ...
    branch,             \* which arm of lines 125/131/151 the run took
    uploaded_file_ids,
    context_text,
    prompt_new,
    formatted_prompt,   \* [bound |-> FALSE] when the run never assigned it
    outcome,            \* how the last run ended
    model_input,        \* the Model Client call of the last run, if any
    cycles,             \* history: runs so far
    calls_since_user,   \* history: Model Client calls since the last user Turn
    replies,            \* history: successful Model Client calls
    failures,           \* history: failed Model Client calls
    handed,             \* history: per file, runs that extracted it as unprocessed
    sel_changes,        \* history: times the uploader's selection changed
    stable_submits,     \* history: texts submitted since the selection changed
    submitted           \* history: the texts submitted, in order

vars == <<messages, uploaded_files, prompt, branch, uploaded_file_ids,
          context_text, prompt_new, formatted_prompt, outcome, model_input,
          cycles, calls_since_user, replies, failures, handed, sel_changes,
          stable_submits, submitted>>

Unbound == [bound |-> FALSE]

Bound(v) == [bound |-> TRUE, value |-> v]

NoCall == [called |-> FALSE]

\* A variant that looks at the last Turn only.
MessageImagesListLastOnly(msgs) ==
    LET message == Last(msgs)
    IN  IF /\ message.role = "user"
           /\ "images" \in DOMAIN message
        THEN message.images ELSE <<>>

\* Lines 115-122: ids carried by the user Turns of the transcript.
RECURSIVE MessageImagesList(_)
MessageImagesList(msgs) ==
    IF msgs = <<>> THEN <<>>
    ELSE LET message == Head(msgs)
         IN  (IF /\ message.role = "user"
                 /\ "images" \in DOMAIN message
                 /\ message.images # <<>>
              THEN message.images ELSE <<>>)
             \o MessageImagesList(Tail(msgs))

\* Line 125: the guard of the upload arm.
FileBranch(files, message_images_list) ==
    files # <<>> /\ Len(message_images_list) < Len(files)

\* Lines 132-138: the text items, each followed by a blank line.
RECURSIVE ContextText(_)
ContextText(content_files) ==
    IF content_files = <<>> THEN ""
    ELSE (IF Head(content_files).type = "text"
          THEN Head(content_files).text \o "\n\n" ELSE "")
         \o ContextText(Tail(content_files))

\* Lines 133-138: the other items, order kept.
ContextImage(content_files) == SelectSeq(content_files, LAMBDA c : c.type # "text")

\* A variant that wraps whether or not any text was extracted.
PromptNewAlwaysWrapped(ctx, p) ==
    "Here is some context for you: \n<context>\n" \o ctx \o "</context>\n\n" \o p

\* Lines 140-143.
PromptNew(ctx, p) ==
    IF ctx # ""
    THEN "Here is some context for you: \n<context>\n" \o ctx \o "</context>\n\n" \o p
    ELSE p

\* A variant that overwrites a last Turn of the same role instead of appending.
AppendTurnOverwriting(msgs, turn) ==
    IF Last(msgs).role = turn.role
    THEN [msgs EXCEPT ![Len(msgs)] = turn]
    ELSE Append(msgs, turn)

\* list.append of lines 146, 153, 167.
AppendTurn(msgs, turn) == Append(msgs, turn)

\* A variant in which the last run's value is still there (a module-level or
\* session-held name).
NewFrameStale(previous) == previous

\* Line 88: a run of main() starts with no local bound, whatever the last run left.
NewFrame(previous) == Unbound

\* A variant with the comparison inverted.
DispatchRuleInverted(msgs) == Last(msgs).role = "assistant"

\* Line 161.
DispatchRule(msgs) == Last(msgs).role # "assistant"

\* A variant that appends an assistant Turn also when the call raised.
AfterCallAlwaysAppending(msgs, ok, response) ==
    Append(msgs, [role |-> "assistant",
                  content |-> IF ok THEN response ELSE "error"])

\* Lines 163-167 once generate_response was entered: it returns the response,
\* which is appended, or raises, which ends the run at line 163.
AfterCall(msgs, ok, response) ==
    IF ok THEN AppendTurn(msgs, [role |-> "assistant", content |-> response])
    ELSE msgs

\* One run of main() with the uploader holding `files`, the chat input
\* returning `p`, and the Model Client succeeding (`ok`) or raising.
Main(files, p, ok) ==
    LET message_images_list == MessageImagesList(messages)
        upload_arm == FileBranch(files, message_images_list)
        built == ProcessUploadedFiles(files, message_images_list)
        ctx == ContextText(built.content_files)
        arm == IF upload_arm
               THEN (IF p # NoPrompt THEN "files_prompt" ELSE "files_only")
               ELSE (IF p # NoPrompt THEN "prompt_only" ELSE "none")
        pnew == IF arm = "files_prompt" THEN PromptNew(ctx, p) ELSE p
        fp == IF arm = "files_prompt"
                  THEN Bound(FormatPrompt(pnew) \o ContextImage(built.content_files))
              ELSE IF arm = "prompt_only" THEN Bound(FormatPrompt(p))
              ELSE NewFrame(formatted_prompt)
        msgs1 == IF arm = "files_prompt"
                     THEN AppendTurn(messages,
                              [role |-> "user", content |-> fp.value,
                               images |-> built.uploaded_file_ids])
                 ELSE IF arm = "prompt_only"
                     THEN AppendTurn(messages, [role |-> "user", content |-> fp.value])
                 ELSE messages
        appended == arm \in {"files_prompt", "prompt_only"}
        fires == DispatchRule(msgs1)
        called == fires /\ fp.bound
        ids == IF upload_arm THEN built.uploaded_file_ids ELSE <<>>
    IN  /\ cycles < MaxCycles
        /\ cycles' = cycles + 1
        /\ prompt' = p
        /\ branch' = arm
        /\ uploaded_file_ids' = ids
        /\ context_text' = IF arm = "files_prompt" THEN ctx ELSE ""
        /\ prompt_new' = IF appended THEN pnew ELSE ""
        /\ formatted_prompt' = fp
        /\ messages' = IF called THEN AfterCall(msgs1, ok, Reply(replies + 1))
                       ELSE msgs1
        /\ outcome' = IF ~fires THEN "idle"
                      ELSE IF ~fp.bound THEN "name_error"
                      ELSE IF ok THEN "completed" ELSE "model_failed"
        /\ model_input' = IF called
                          THEN [called |-> TRUE,
                                input |-> <<[role |-> "user", content |-> fp.value]>>,
                                last_role |-> Last(msgs1).role]
                          ELSE NoCall
        /\ calls_since_user' = (IF appended THEN 0 ELSE calls_since_user)
                               + (IF called THEN 1 ELSE 0)
        /\ replies' = replies + (IF called /\ ok THEN 1 ELSE 0)
        /\ failures' = failures + (IF called /\ ~ok THEN 1 ELSE 0)
        /\ handed' = [f \in FileIds |->
                         handed[f] + (IF f \in Range(ids) THEN 1 ELSE 0)]
        /\ submitted' = IF p # NoPrompt THEN Append(submitted, p) ELSE submitted

\* A refresh with nothing submitted and the selection untouched (another widget).
RenderEmpty ==
    /\ \E ok \in BOOLEAN : Main(uploaded_files, NoPrompt, ok)
    /\ UNCHANGED <<uploaded_files, sel_changes, stable_submits>>

\* The user changes the uploader's selection; chat_input returns None.
RenderUpload ==
    \E files \in Selections \ {uploaded_files} :
        /\ \E ok \in BOOLEAN : Main(files, NoPrompt, ok)
        /\ uploaded_files' = files
        /\ sel_changes' = sel_changes + 1
        /\ stable_submits' = 0

\* The user submits a text; the selection is as it was.
RenderSubmit ==
    \E p \in Prompts :
        /\ \E ok \in BOOLEAN : Main(uploaded_files, p, ok)
        /\ stable_submits' = stable_submits + 1
        /\ UNCHANGED <<uploaded_files, sel_changes>>

\* The session after the initial page load: lines 105-106 seeded the transcript,
\* nothing was submitted and no file is selected.
Init ==
    /\ messages = <<INIT_MESSAGE>>
    /\ uploaded_files = <<>>
    /\ prompt = NoPrompt
    /\ branch = "none"
    /\ uploaded_file_ids = <<>>
    /\ context_text = ""
    /\ prompt_new = ""
    /\ formatted_prompt = Unbound
    /\ outcome = "idle"
    /\ model_input = NoCall
    /\ cycles = 0
    /\ calls_since_user = 0
    /\ replies = 0
    /\ failures = 0
    /\ handed = [f \in FileIds |-> 0]
    /\ sel_changes = 0
    /\ stable_submits = 0
    /\ submitted = <<>>

Next == RenderEmpty \/ RenderUpload \/ RenderSubmit

Spec == Init /\ [][Next]_vars

(***************************************************************************)
(* Properties.                                                             *)
(***************************************************************************)
CountRole(msgs, r) == Cardinality({i \in 1..Len(msgs) : msgs[i].role = r})

\* How many times file f occurs in the images of the transcript's user Turns.
TimesMerged(f) == Len(SelectSeq(MessageImagesList(messages), LAMBDA g : g = f))

\* The user Turn the dispatch of the last run was facing: the last Turn, or
\* the one before the assistant Turn that run appended.
PendingTurn ==
    IF outcome = "completed" THEN messages[Len(messages) - 1] ELSE Last(messages)

\* C1: at most one Model Client call happens between two consecutive user
\* Turn appends, and no call happens while the last Turn is an assistant Turn.
AtMostOneDispatch ==
    /\ calls_since_user <= 1
    /\ model_input.called => model_input.last_role # "assistant"

\* A pending user Turn whose call failed was re-rendered without a second call.
AtMostOneDispatchWitness ==
    /\ calls_since_user = 1
    /\ failures = 1
    /\ outcome = "name_error"
    /\ Last(messages).role = "user"

FailureIsolation ==
    [][/\ outcome' = "model_failed" =>
            /\ IsPrefix(messages, messages')
            /\ Len(messages') = Len(messages) + 1
            /\ Last(messages').role = "user"
            /\ CountRole(messages', "assistant") = CountRole(messages, "assistant")
       /\ (Last(messages).role = "user" /\ outcome' = "completed") =>
            /\ IsPrefix(messages, messages')
            /\ Len(messages') = Len(messages) + 2
            /\ CountRole(messages', "assistant")
                 = CountRole(messages, "assistant") + 1
            /\ Last(messages').role = "assistant"]_vars

\* A resubmission succeeded on top of a user Turn left by a failed call.
FailureIsolationWitness ==
    /\ failures >= 1
    /\ outcome = "completed"
    /\ Len(messages) >= 4
    /\ messages[Len(messages) - 2].role = "user"
    /\ messages[Len(messages) - 1].role = "user"
    /\ Last(messages).role = "assistant"

\* C4: the transcript never holds two adjacent user Turns.
NoAdjacentUserTurns ==
    \A i \in 1..(Len(messages) - 1) :
        ~(messages[i].role = "user" /\ messages[i + 1].role = "user")

OrderedPairs ==
    failures = 0 =>
        /\ Len(messages) = 1 + 2 * Len(submitted)
        /\ messages[1].role = "assistant"
        /\ messages[1] = INIT_MESSAGE
        /\ \A i \in 1..Len(submitted) :
              /\ Len(messages) >= 2 * i + 1
              /\ messages[2 * i].role = "user"
              /\ messages[2 * i].content[1].type = "text"
              /\ messages[2 * i].content[1].text \in
                    {submitted[i],
                     "Here is some context for you: \n<context>\nGreat battery life.\n\n</context>\n\n"
                        \o submitted[i]}
              /\ messages[2 * i + 1].role = "assistant"
              /\ messages[2 * i + 1].content = Reply(i)
        /\ (/\ submitted = <<"hi", "recommend?">>
            /\ Len(messages) = 5
            /\ "images" \notin DOMAIN messages[2]
            /\ "images" \in DOMAIN messages[4]
            /\ messages[4].images = <<"fileA">>)
           => /\ messages[2].content = <<[type |-> "text", text |-> "hi"]>>
              /\ messages[3].content = "reply1"
              /\ messages[4].content =
                    <<[type |-> "text",
                       text |-> "Here is some context for you: \n<context>\nGreat battery life.\n\n</context>\n\nrecommend?"]>>
              /\ messages[5].content = "reply2"

\* "hi", then the text file uploaded, then "recommend?", all answered.
OrderedPairsWitness ==
    /\ failures = 0
    /\ submitted = <<"hi", "recommend?">>
    /\ Len(messages) = 5
    /\ "images" \notin DOMAIN messages[2]
    /\ "images" \in DOMAIN messages[4]
    /\ messages[4].images = <<"fileA">>

\* C7: every run leaves the transcript it found as a prefix of the transcript
\* it leaves, and the first Turn is always the assistant greeting.
TranscriptAppendOnly ==
    /\ [][IsPrefix(messages, messages')]_vars
    /\ [](messages[1].role = "assistant" /\ messages[1] = INIT_MESSAGE)

\* A failed call, a completed one and a run that appended nothing all happened.
TranscriptAppendOnlyWitness ==
    /\ failures >= 1
    /\ replies >= 1
    /\ outcome = "idle"
    /\ prompt = NoPrompt

\* C8: whenever the dispatch rule fires, the Model Client is called with the
\* content of the user Turn it is facing.
DispatchAnswersLastTurn ==
    outcome # "idle" =>
        /\ model_input.called
        /\ model_input.input = <<[role |-> "user", content |-> PendingTurn.content]>>

\* C9: a run with a text submitted and a selected file whose id no user Turn
\* carries takes the context-merging arm and appends a user Turn carrying
\* exactly the ids not carried before.
MembershipDecidesBranch ==
    [][LET unprocessed ==
               ProcessUploadedFiles(uploaded_files',
                                    MessageImagesList(messages)).uploaded_file_ids
       IN  (prompt' # NoPrompt /\ unprocessed # <<>>) =>
               /\ branch' = "files_prompt"
               /\ uploaded_file_ids' = unprocessed
               /\ Len(messages') > Len(messages)
               /\ "images" \in DOMAIN messages'[Len(messages) + 1]
               /\ messages'[Len(messages) + 1].images = unprocessed]_vars

\* C10: the files a run extracted as unprocessed are carried by the transcript
\* when the run ends, and no file is extracted as unprocessed in two runs.
ExtractedFilesAreMarked ==
    \A f \in FileIds :
        /\ f \in Range(uploaded_file_ids) => TimesMerged(f) >= 1
        /\ handed[f] <= 1

====
